---------------------------- MODULE Spec2Model ----------------------------
(***************************************************************************)
(* PyMataCommandHandler (pymata_command_handler.py): the receive loop that *)
(* decodes the inbound Firmata byte stream and dispatches its messages,    *)
(* the response tables the handlers write, and the caller-side methods     *)
(* (table accessors, system_reset) that share those tables through         *)
(* data_lock.                                                              *)
(*                                                                         *)
(* One handler instance.  Threads: the decoder (run), one caller thread,   *)
(* and the transport that feeds command_deque a byte at a time.  A Python  *)
(* list is a sequence indexed from 1 here, so data[0] of the source is     *)
(* data[1].  An uncaught exception ends the decoder thread (pc = "dead");  *)
(* crash names the exception and the source line that raised it.           *)
(***************************************************************************)
EXTENDS Integers, Sequences, FiniteSets, TLC

\* ------------------------------------------------------------- bounds
\* number of messages the transport delivers in one behaviour
MaxMsgs == 2
\* capacity of command_deque: the transport waits while it is full
MaxQueue == 2
\* number of API calls the caller thread makes in one behaviour
MaxCalls == 2
\* constructor arguments number_digital_pins, number_analog_pins
NumDigitalPins == 8
NumAnalogPins == 2

\* ------------------------------------------------- protocol constants
START_SYSEX == 240
END_SYSEX == 247
SYSTEM_RESET == 255
DIGITAL_MESSAGE == 144
ANALOG_MESSAGE == 224
REPORT_VERSION == 249
ENCODER_DATA == 33
STRING_DATA == 113
REPORT_FIRMWARE == 121
INPUT == 0

VARIABLES
    command_deque,            \* inbound bytes not yet consumed by run()
    pending,                  \* bytes of the current message still on the wire
    fed,                      \* messages handed to the transport so far
    pc,                       \* position of the decoder thread in run()
    crash,                    \* the exception that ended the decoder, if any
    command_data,             \* run(): command_data
    method,                   \* run(): method
    num_args,                 \* run(): iterations left of range(num_args)
    port_data,                \* digital_message: port_data
    pin,                      \* digital_message / encoder_data: pin index
    pin_end,                  \* digital_message: end of range(pin, pin + 8)
    val,                      \* encoder_data: val
    data_lock,                \* holder of data_lock: "free", "decoder", "caller"
    digital_response_table,
    analog_response_table,
    firmata_version,
    firmata_firmware,
    console,                  \* what _string_data printed
    transport,                \* bytes written with transport.write
    cpc,                      \* position of the caller thread
    calls,                    \* API calls started by the caller thread
    held,                     \* what the last table accessor returned
    consumed,                 \* history: every byte popped by the decoder
    frame_start,              \* history: Len(consumed) when the frame opened
    invoked,                  \* history: handler invocations <<method, data>>
    dm,                       \* history: the digital_message in progress
    instances,                \* handler objects constructed in the process
    sending,                  \* per sender thread: its send_sysex call
    written                   \* history: per sender, bytes its call has written

vars == <<command_deque, pending, fed, pc, crash, command_data, method,
          num_args, port_data, pin, pin_end, val, data_lock,
          digital_response_table, analog_response_table, firmata_version,
          firmata_firmware, console, transport, cpc, calls, held, consumed,
          frame_start, invoked, dm, instances, sending, written>>

decoderVars == <<pc, crash, command_data, method, num_args, port_data, pin,
                 pin_end, val, consumed, frame_start, invoked, dm>>
tableVars == <<digital_response_table, analog_response_table>>
metaVars == <<firmata_version, firmata_firmware, console>>
feedVars == <<pending, fed>>
extVars == <<instances, sending, written>>
callerVars == <<cpc, calls, held, transport, extVars>>

\* the caller threads that use the outbound encoder
Senders == {1, 2}

\* ------------------------------------------------------------ helpers
\* [self.INPUT, 0]
response_entry == [mode |-> INPUT, value |-> 0]

\* the table built by "for pin in range(0, n): table.append([INPUT, 0])"
FreshTable(n) == [i \in 1..n |-> response_entry]

\* table[index][RESPONSE_TABLE_PIN_DATA_VALUE] = v, index counted from 0
SetValue(table, index, v) ==
    [table EXCEPT ![index + 1] = [@ EXCEPT !.value = v]]

Last(s) == s[Len(s)]

\* The bytes of the message the decoder is reading or has just read, from its
\* first byte (START_SYSEX or the command byte) on.
Frame == IF frame_start = 0 THEN <<>>
         ELSE SubSeq(consumed, frame_start, Len(consumed))

NoCrash == [exc |-> "none", line |-> 0]
Raised(e, l) == [exc |-> e, line |-> l]

\* ------------------------------------------------------ pure functions
\* chr(i) for the character codes the modelled payloads carry
Ascii == (65 :> "A") @@ (66 :> "B") @@ (67 :> "C") @@ (0 :> "NUL")
chr(i) == IF i \in DOMAIN Ascii THEN Ascii[i] ELSE "?"

\* chr(i) as send_sysex uses it: the one-character string with code i
Char(i) == [code |-> i]

\* the byte transport.write puts on the wire for a one-character string
Ord(c) == c.code

\* the sysex_data argument: absent (None) or a list of bytes
NoData == [given |-> FALSE, bytes |-> <<>>]
Data(bytes) == [given |-> TRUE, bytes |-> bytes]

\* if not sysex_data: sysex_data = []
DataBytes(arg) == IF arg.given /\ arg.bytes # <<>> THEN arg.bytes ELSE <<>>

\* the message without the closing END_SYSEX
SysexMessageNoEnd(sysex_command, arg) ==
    <<Char(240), Char(sysex_command)>>
        \o [i \in 1..Len(DataBytes(arg)) |-> Char(DataBytes(arg)[i])]

\* sysex_message: chr(START_SYSEX) + chr(command) + chr(d)... + chr(END_SYSEX)
SysexMessage(sysex_command, arg) ==
    <<Char(240), Char(sysex_command)>>
        \o [i \in 1..Len(DataBytes(arg)) |-> Char(DataBytes(arg)[i])]
        \o <<Char(247)>>

\* a sender thread that is not inside send_sysex
NoSend == [active |-> FALSE, command |-> 0, arg |-> NoData, message |-> <<>>]

\* the slice taken from offset 1: s[1::2]
EveryOtherFrom1(s) == [i \in 1..(Len(s) \div 2) |-> s[2 * i]]

\* s[::2]: the elements at even offsets 0, 2, 4, ...
EveryOther(s) == [i \in 1..((Len(s) + 1) \div 2) |-> s[2 * i - 1]]

\* s[2:]
From2(s) == IF Len(s) <= 2 THEN <<>> ELSE SubSeq(s, 3, Len(s))

\* "".join(chr(i) for i in name_data[::2])
DecodeText(s) == [i \in 1..Len(EveryOther(s)) |-> chr(EveryOther(s)[i])]

\* (data[self.MSB] << 7) + data[self.LSB], with MSB = 2 and LSB = 1
Combine14(data) == data[3] * 128 + data[2]

\* analog_message with LSB and MSB taken the wrong way round
AnalogValueSwapped(data) == data[2] * 128 + data[3]

\* analog_message: the value stored for the pin
AnalogValue(data) == Combine14(data)

\* digital_message: port_data before the first pin is written
PortData(data) == Combine14(data)

\* encoder_data with the sign test "val >= 8192"
EncoderValueGe(data) ==
    IF Combine14(data) >= 8192 THEN Combine14(data) - 16384
    ELSE Combine14(data)

\* encoder_data: val, "if val > 8192: val -= 16384"
EncoderValue(data) ==
    IF Combine14(data) > 8192 THEN Combine14(data) - 16384
    ELSE Combine14(data)

\* run(): the command byte as looked up, 0x90..0x9f -> 0x90, 0xe0..0xe9 -> 0xe0
Normalise(data) ==
    IF 144 <= data /\ data <= 159 THEN DIGITAL_MESSAGE
    ELSE IF 224 <= data /\ data <= 233 THEN ANALOG_MESSAGE
    ELSE data

\* run(): command_data after the port or pin (data & 0xf) was decoded
Embedded(data) ==
    IF (144 <= data /\ data <= 159) \/ (224 <= data /\ data <= 233)
    THEN <<data % 16>>
    ELSE <<>>

\* the dispatch table run() builds: command -> <<method, num_args>>
command_dispatch ==
    (REPORT_VERSION :> <<"report_version", 2>>)
    @@ (REPORT_FIRMWARE :> <<"report_firmware", 1>>)
    @@ (ANALOG_MESSAGE :> <<"analog_message", 2>>)
    @@ (DIGITAL_MESSAGE :> <<"digital_message", 2>>)
    @@ (ENCODER_DATA :> <<"encoder_data", 3>>)
    @@ (STRING_DATA :> <<"_string_data", 2>>)

\* self.command_dispatch.get(cmd) is not None
Known(cmd) == cmd \in DOMAIN command_dispatch

\* the 8 values of the port whose first pin is `first` (counted from 0), as
\* far as the table holds them
PortValues(table, first) ==
    [i \in 1..8 |-> IF first + i <= Len(table) THEN table[first + i].value
                    ELSE -1]

\* bit i of b
Bit(b, i) == (b \div (2 ^ i)) % 2

\* the 8 values digital_message stores for port_data b
PortBits(b) == [i \in 1..8 |-> Bit(b, i - 1)]

NoDm == [active |-> FALSE, first |-> 0, bits |-> 0, pre |-> <<>>]

\* ------------------------------------------------------------- inputs
\* The messages the transport may deliver, as their bytes on the wire.
DigitalMsgs ==
    { <<144, 5, 1>>,           \* port 0, b = 0x85
      <<145, 1, 0>> }          \* port 1: beyond an 8-pin table
AnalogMsgs ==
    { <<225, 127, 127>>,       \* pin 1, v = 16383
      <<224, 1, 2>>,           \* pin 0, v = 257
      <<233, 1, 0>> }          \* pin 9: beyond a 2-pin table
EncoderMsgs ==
    { <<240, 33, 2, 0, 64, 247>>,     \* pin 2, v = 8192
      <<240, 33, 2, 1, 64, 247>> }    \* pin 2, v = 8193
MetaMsgs ==
    { <<249, 2, 3>>,                  \* REPORT_VERSION 2.3
      <<240, 121, 1, 2, 65, 0, 247>>, \* REPORT_FIRMWARE 1.2 "A"
      <<240, 113, 65, 0, 66, 247>> }  \* STRING_DATA, three data bytes
UnknownMsgs ==
    { <<240, 85, 1, 247>>,     \* sysex code 0x55: no dispatch entry
      <<255>>, <<234>>, <<247>>,   \* command bytes with no dispatch entry
      <<5>> }                  \* a data byte outside any message
Messages == DigitalMsgs \cup AnalogMsgs \cup EncoderMsgs \cup MetaMsgs
            \cup UnknownMsgs

\* --------------------------------------------------------------- Init
\* The state after __init__ of the first handler of the process: the
\* class-level lists digital_response_table, analog_response_table,
\* firmata_version and firmata_firmware were empty before it, so both tables
\* hold [INPUT, 0] once per pin; the decoder is at the top of run().
Init ==
    /\ command_deque = <<>>
    /\ pending = <<>>
    /\ fed = 0
    /\ pc = "run"
    /\ crash = NoCrash
    /\ command_data = <<>>
    /\ method = "none"
    /\ num_args = 0
    /\ port_data = 0
    /\ pin = 0
    /\ pin_end = 0
    /\ val = 0
    /\ data_lock = "free"
    /\ digital_response_table = FreshTable(NumDigitalPins)
    /\ analog_response_table = FreshTable(NumAnalogPins)
    /\ firmata_version = <<>>
    /\ firmata_firmware = <<>>
    /\ console = <<>>
    /\ transport = <<>>
    /\ cpc = "idle"
    /\ calls = 0
    /\ held = [ref |-> "none", seen |-> <<>>, dm |-> NoDm]
    /\ consumed = <<>>
    /\ frame_start = 0
    /\ invoked = <<>>
    /\ dm = NoDm
    /\ instances = 1
    /\ sending = [t \in Senders |-> NoSend]
    /\ written = [t \in Senders |-> <<>>]

\* ---------------------------------------------------------- transport
\* The transport starts to deliver message m: its first byte arrives.
Feed(m) ==
    /\ pending = <<>>
    /\ fed < MaxMsgs
    /\ Len(command_deque) < MaxQueue
    /\ command_deque' = Append(command_deque, Head(m))
    /\ pending' = Tail(m)
    /\ fed' = fed + 1
    /\ UNCHANGED <<decoderVars, data_lock, tableVars, metaVars,
                   callerVars>>

\* The next byte of the message arrives: command_deque.append(byte).
FeedByte ==
    /\ pending # <<>>
    /\ Len(command_deque) < MaxQueue
    /\ command_deque' = Append(command_deque, Head(pending))
    /\ pending' = Tail(pending)
    /\ UNCHANGED <<fed, decoderVars, data_lock, tableVars, metaVars,
                   callerVars>>

\* ------------------------------------------------------------ decoder
\* The decoder moves on without calling a handler.
NoInvoke(newpc, newcrash) ==
    /\ pc' = newpc
    /\ crash' = newcrash
    /\ UNCHANGED <<invoked, port_data, pin, pin_end, val, dm, metaVars>>

\* report_version(data): two appends, each of which may raise IndexError
ReportVersion(data) ==
    /\ firmata_version' =
           firmata_version \o SubSeq(data, 1, IF Len(data) < 2 THEN Len(data) ELSE 2)
    /\ IF Len(data) >= 2 THEN pc' = "run" /\ crash' = NoCrash
       ELSE pc' = "dead" /\ crash' = Raised("IndexError", 174 + Len(data))
    /\ UNCHANGED <<firmata_firmware, console, port_data, pin, pin_end, val, dm>>

\* report_firmware(data): major, minor, then the name from data[2:][::2]
ReportFirmware(data) ==
    /\ firmata_firmware' =
           IF Len(data) >= 2
           THEN firmata_firmware \o <<data[1], data[2], DecodeText(From2(data))>>
           ELSE firmata_firmware \o data
    /\ IF Len(data) >= 2 THEN pc' = "run" /\ crash' = NoCrash
       ELSE pc' = "dead" /\ crash' = Raised("IndexError", 187 + Len(data))
    /\ UNCHANGED <<firmata_version, console, port_data, pin, pin_end, val, dm>>

\* _string_data(data): prints the characters of data[::2]
StringData(data) ==
    /\ console' = Append(console, DecodeText(data))
    /\ pc' = "run" /\ crash' = NoCrash
    /\ UNCHANGED <<firmata_version, firmata_firmware, port_data, pin, pin_end,
                   val, dm>>

\* analog_message(data) up to data_lock.acquire
AnalogEnter(data) ==
    /\ pc' = "analog_message" /\ crash' = NoCrash
    /\ UNCHANGED <<metaVars, port_data, pin, pin_end, val, dm>>

\* digital_message(data) up to the first data_lock.acquire: port, port_data
\* and the first pin of range(pin, pin + 8)
DigitalEnter(data) ==
    /\ IF Len(data) >= 3
       THEN /\ pc' = "digital_message" /\ crash' = NoCrash
            /\ port_data' = PortData(data)
            /\ pin' = data[1] * 8
            /\ pin_end' = data[1] * 8 + 8
            /\ dm' = [active |-> TRUE, first |-> data[1] * 8,
                      bits |-> PortData(data),
                      pre |-> PortValues(digital_response_table, data[1] * 8)]
       ELSE /\ pc' = "dead"
            /\ crash' = Raised("IndexError", IF Len(data) = 0 THEN 226 ELSE 227)
            /\ UNCHANGED <<port_data, pin, pin_end, dm>>
    /\ UNCHANGED <<metaVars, val>>

\* encoder_data(data) up to data_lock.acquire: val, sign-extended
EncoderEnter(data) ==
    /\ IF Len(data) >= 3
       THEN /\ pc' = "encoder_data" /\ crash' = NoCrash
            /\ val' = EncoderValue(data)
            /\ pin' = data[1]
       ELSE /\ pc' = "dead" /\ crash' = Raised("IndexError", 247)
            /\ UNCHANGED <<val, pin>>
    /\ UNCHANGED <<metaVars, port_data, pin_end, dm>>

\* method(command_data)
Invoke(m, data) ==
    /\ invoked' = Append(invoked, <<m, data>>)
    /\ CASE m = "report_version" -> ReportVersion(data)
         [] m = "report_firmware" -> ReportFirmware(data)
         [] m = "_string_data" -> StringData(data)
         [] m = "analog_message" -> AnalogEnter(data)
         [] m = "digital_message" -> DigitalEnter(data)
         [] m = "encoder_data" -> EncoderEnter(data)

\* run(), top of the loop: pop one byte and classify it.
DecoderRead ==
    /\ pc = "run"
    /\ command_deque # <<>>
    /\ LET data == Head(command_deque) IN
       /\ command_deque' = Tail(command_deque)
       /\ consumed' = Append(consumed, data)
       /\ IF data = START_SYSEX
          THEN /\ NoInvoke("sysex_command", NoCrash)
               /\ command_data' = <<>>
               /\ frame_start' = Len(consumed) + 1
               /\ UNCHANGED <<method, num_args>>
          ELSE IF 128 <= data /\ data <= 255
          THEN /\ frame_start' = Len(consumed) + 1
               /\ command_data' = Embedded(data)
               /\ IF Known(Normalise(data))
                  THEN /\ method' = command_dispatch[Normalise(data)][1]
                       /\ num_args' = command_dispatch[Normalise(data)][2]
                       /\ IF command_dispatch[Normalise(data)][2] = 0
                          THEN Invoke(command_dispatch[Normalise(data)][1],
                                      Embedded(data))
                          ELSE NoInvoke("args", NoCrash)
                  ELSE \* dispatch_entry is None: dispatch_entry[0] raises
                       /\ NoInvoke("dead", Raised("TypeError", 438))
                       /\ UNCHANGED <<method, num_args>>
          ELSE \* a byte below 0x80 outside a message: dropped
               /\ NoInvoke("run", NoCrash)
               /\ UNCHANGED <<command_data, method, num_args, frame_start>>
    /\ UNCHANGED <<feedVars, data_lock, tableVars, callerVars>>

\* run(), after START_SYSEX: pop the sysex command and look it up.
DecoderSysexCommand ==
    /\ pc = "sysex_command"
    /\ command_deque # <<>>
    /\ LET sysex_command == Head(command_deque) IN
       /\ command_deque' = Tail(command_deque)
       /\ consumed' = Append(consumed, sysex_command)
       /\ IF Known(sysex_command)
          THEN /\ method' = command_dispatch[sysex_command][1]
               /\ NoInvoke("sysex_data", NoCrash)
          ELSE \* dispatch_entry is None: dispatch_entry[0] raises
               /\ NoInvoke("dead", Raised("TypeError", 398))
               /\ UNCHANGED method
    /\ UNCHANGED <<command_data, num_args, frame_start, feedVars, data_lock,
                   tableVars, callerVars>>

\* A sysex loop that ends the frame after the num_args bytes of the dispatch
\* entry instead of at END_SYSEX.
DecoderSysexDataByArity ==
    /\ pc = "sysex_data"
    /\ command_deque # <<>>
    /\ LET data == Head(command_deque) IN
       /\ command_deque' = Tail(command_deque)
       /\ consumed' = Append(consumed, data)
       /\ command_data' = Append(command_data, data)
       /\ IF Len(command_data) + 1 < command_dispatch[Frame[2]][2]
          THEN NoInvoke("sysex_data", NoCrash)
          ELSE Invoke(method, Append(command_data, data))
    /\ UNCHANGED <<method, num_args, frame_start, feedVars, data_lock,
                   tableVars, callerVars>>

\* run(), inside a sysex frame: pop a byte; END_SYSEX calls the method.
DecoderSysexData ==
    /\ pc = "sysex_data"
    /\ command_deque # <<>>
    /\ LET data == Head(command_deque) IN
       /\ command_deque' = Tail(command_deque)
       /\ consumed' = Append(consumed, data)
       /\ IF data # END_SYSEX
          THEN /\ command_data' = Append(command_data, data)
               /\ NoInvoke("sysex_data", NoCrash)
          ELSE /\ UNCHANGED command_data
               /\ Invoke(method, command_data)
    /\ UNCHANGED <<method, num_args, frame_start, feedVars, data_lock,
                   tableVars, callerVars>>

\* A num_args loop that calls the method after the first byte it pops.
DecoderArgEager ==
    /\ pc = "args"
    /\ command_deque # <<>>
    /\ LET data == Head(command_deque) IN
       /\ command_deque' = Tail(command_deque)
       /\ consumed' = Append(consumed, data)
       /\ command_data' = Append(command_data, data)
       /\ num_args' = num_args - 1
       /\ Invoke(method, Append(command_data, data))
    /\ UNCHANGED <<method, frame_start, feedVars, data_lock, tableVars,
                   callerVars>>

\* run(), fixed-length command: pop one of the num_args bytes; the last one
\* calls the method.
DecoderArg ==
    /\ pc = "args"
    /\ command_deque # <<>>
    /\ LET data == Head(command_deque) IN
       /\ command_deque' = Tail(command_deque)
       /\ consumed' = Append(consumed, data)
       /\ command_data' = Append(command_data, data)
       /\ num_args' = num_args - 1
       /\ IF num_args = 1
          THEN Invoke(method, Append(command_data, data))
          ELSE NoInvoke("args", NoCrash)
    /\ UNCHANGED <<method, frame_start, feedVars, data_lock, tableVars,
                   callerVars>>

\* analog_message: acquire, store the value, release.  An index beyond the
\* table (or a short data list) raises between acquire and release.
AnalogStore ==
    /\ pc = "analog_message"
    /\ data_lock = "free"
    /\ IF Len(command_data) >= 3 /\ command_data[1] < Len(analog_response_table)
       THEN /\ analog_response_table' =
                   SetValue(analog_response_table, command_data[1],
                            AnalogValue(command_data))
            /\ pc' = "run"
            /\ UNCHANGED <<crash, data_lock>>
       ELSE /\ data_lock' = "decoder"
            /\ pc' = "dead"
            /\ crash' = Raised("IndexError", 214)
            /\ UNCHANGED analog_response_table
    /\ UNCHANGED <<command_deque, feedVars, command_data, method, num_args,
                   port_data, pin, pin_end, val, consumed, frame_start,
                   invoked, dm, digital_response_table, metaVars, callerVars>>

\* digital_message, one iteration of the loop: acquire, store the low bit
\* for this pin, release, shift port_data.
DigitalStore ==
    /\ pc = "digital_message"
    /\ data_lock = "free"
    /\ IF pin < Len(digital_response_table)
       THEN /\ digital_response_table' =
                   SetValue(digital_response_table, pin, port_data % 2)
            /\ port_data' = port_data \div 2
            /\ pin' = pin + 1
            /\ pc' = IF pin + 1 = pin_end THEN "run" ELSE "digital_message"
            /\ dm' = IF pin + 1 = pin_end THEN NoDm ELSE dm
            /\ UNCHANGED <<crash, data_lock>>
       ELSE /\ data_lock' = "decoder"
            /\ pc' = "dead"
            /\ crash' = Raised("IndexError", 235)
            /\ dm' = NoDm
            /\ UNCHANGED <<digital_response_table, port_data, pin>>
    /\ UNCHANGED <<command_deque, feedVars, command_data, method, num_args,
                   pin_end, val, consumed, frame_start, invoked,
                   analog_response_table, metaVars, callerVars>>

\* encoder_data: acquire, store val for the pin, release.
EncoderStore ==
    /\ pc = "encoder_data"
    /\ data_lock = "free"
    /\ IF pin < Len(digital_response_table)
       THEN /\ digital_response_table' =
                   SetValue(digital_response_table, pin, val)
            /\ pc' = "run"
            /\ UNCHANGED <<crash, data_lock>>
       ELSE /\ data_lock' = "decoder"
            /\ pc' = "dead"
            /\ crash' = Raised("IndexError", 252)
            /\ UNCHANGED digital_response_table
    /\ UNCHANGED <<command_deque, feedVars, command_data, method, num_args,
                   port_data, pin, pin_end, val, consumed, frame_start,
                   invoked, dm, analog_response_table, metaVars, callerVars>>

Decoder ==
    \/ DecoderRead
    \/ DecoderSysexCommand
    \/ DecoderSysexData
    \/ DecoderArg
    \/ AnalogStore
    \/ DigitalStore
    \/ EncoderStore

\* ------------------------------------------------------------- caller
\* the pop loop running one time too few
PopAllButOne(table) == SubSeq(table, 1, IF Len(table) > 0 THEN 1 ELSE 0)

\* "for _ in range(len(table)): table.pop()"
PopAll(table) == SubSeq(table, 1, Len(table) - Len(table))

\* the append loop building [self.OUTPUT, 0]
AppendEntriesOutput(table, n) == table \o [i \in 1..n |-> [mode |-> 1, value |-> 0]]

\* "for pin in range(0, n): table.append([self.INPUT, 0])"
AppendEntries(table, n) == table \o FreshTable(n)

\* system_reset(): the SYSTEM_RESET byte is written first, before the lock
\* is asked for.
SystemResetWrite ==
    /\ cpc = "idle"
    /\ calls < MaxCalls
    /\ calls' = calls + 1
    /\ transport' = Append(transport, SYSTEM_RESET)
    /\ cpc' = "reset_acquire"
    /\ UNCHANGED <<command_deque, feedVars, decoderVars, data_lock, tableVars,
                   metaVars, held, extVars>>

\* system_reset(): acquire data_lock and pop every entry of both tables.
SystemResetPop ==
    /\ cpc = "reset_acquire"
    /\ data_lock = "free"
    /\ data_lock' = "caller"
    /\ digital_response_table' = PopAll(digital_response_table)
    /\ analog_response_table' = PopAll(analog_response_table)
    /\ cpc' = "reset_append"
    /\ UNCHANGED <<command_deque, feedVars, decoderVars, metaVars, calls, held,
                   transport, extVars>>

\* system_reset(): append the fresh entries, release data_lock and return.
SystemResetAppend ==
    /\ cpc = "reset_append"
    /\ digital_response_table' =
           AppendEntries(digital_response_table, NumDigitalPins)
    /\ analog_response_table' =
           AppendEntries(analog_response_table, NumAnalogPins)
    /\ data_lock' = "free"
    /\ cpc' = "idle"
    /\ UNCHANGED <<command_deque, feedVars, decoderVars, metaVars, calls, held,
                   transport, extVars>>

\* What an accessor returns: "data = self.<table>; return data" binds the
\* table's own list object, so the caller holds a reference to the live table.
\* seen and dm record the contents and the decoder's progress at that moment.
Returned(name, table) == [ref |-> name, seen |-> table, dm |-> dm]

\* get_digital_response_table(): acquire, take the table, release, return.
GetDigitalResponseTable ==
    /\ cpc = "idle"
    /\ calls < MaxCalls
    /\ data_lock = "free"
    /\ calls' = calls + 1
    /\ held' = Returned("digital_response_table", digital_response_table)
    /\ UNCHANGED <<command_deque, feedVars, decoderVars, data_lock, tableVars,
                   metaVars, cpc, transport, extVars>>

\* get_analog_response_table(): acquire, take the table, release, return.
GetAnalogResponseTable ==
    /\ cpc = "idle"
    /\ calls < MaxCalls
    /\ data_lock = "free"
    /\ calls' = calls + 1
    /\ held' = Returned("analog_response_table", analog_response_table)
    /\ UNCHANGED <<command_deque, feedVars, decoderVars, data_lock, tableVars,
                   metaVars, cpc, transport, extVars>>

\* The value the caller holds now: the object held.ref names.
HeldValue ==
    CASE held.ref = "digital_response_table" -> digital_response_table
      [] held.ref = "analog_response_table" -> analog_response_table
      [] OTHER -> <<>>

Caller ==
    \/ SystemResetWrite
    \/ SystemResetPop
    \/ SystemResetAppend
    \/ GetDigitalResponseTable
    \/ GetAnalogResponseTable

\* ---------------------------------------------------------------- Spec
Next ==
    \/ \E m \in Messages : Feed(m)
    \/ FeedByte
    \/ Decoder
    \/ Caller

Spec == Init /\ [][Next]_vars

\* The decoder alone on the metadata and text messages: REPORT_FIRMWARE with
\* the name "ABC", REPORT_FIRMWARE and STRING_DATA whose two-byte-per-character
\* part has odd length, and two REPORT_VERSION messages.
TextMsgs ==
    { <<240, 121, 1, 2, 65, 0, 66, 0, 67, 0, 247>>,
      <<240, 121, 1, 2, 65, 0, 66, 247>>,
      <<240, 113, 65, 0, 66, 247>>,
      <<249, 2, 3>>,
      <<249, 2, 4>> }

NextMeta ==
    \/ \E m \in TextMsgs : Feed(m)
    \/ FeedByte
    \/ DecoderRead
    \/ DecoderSysexCommand
    \/ DecoderSysexData
    \/ DecoderArg

SpecMeta == Init /\ [][NextMeta]_vars

\* A second handler object is constructed in the same process, with the same
\* pin counts.  digital_response_table and analog_response_table are class
\* attributes (lines 92, 96) and __init__ appends to them through self, so
\* the entries go to the one list object both instances see.
ConstructSecond ==
    /\ instances = 1
    /\ instances' = 2
    /\ digital_response_table' =
           digital_response_table \o FreshTable(NumDigitalPins)
    /\ analog_response_table' =
           analog_response_table \o FreshTable(NumAnalogPins)
    /\ UNCHANGED <<command_deque, feedVars, decoderVars, data_lock, metaVars,
                   cpc, calls, held, transport, sending, written>>

NextInstances == Next \/ ConstructSecond

SpecInstances == Init /\ [][NextInstances]_vars

\* The decoder thread alone, scheduled fairly, on complete messages with
\* registered commands (some address a pin beyond the configured tables).
ValidMsgs == DigitalMsgs \cup AnalogMsgs \cup EncoderMsgs \cup MetaMsgs

\* The transport has put all the bytes of message m in the queue.
FeedWhole(m) ==
    /\ fed < MaxMsgs
    /\ fed' = fed + 1
    /\ command_deque' = command_deque \o m
    /\ UNCHANGED <<pending, decoderVars, data_lock, tableVars, metaVars,
                   callerVars>>

NextFair ==
    \/ \E m \in ValidMsgs : FeedWhole(m)
    \/ Decoder

SpecFair == Init /\ [][NextFair]_vars /\ WF_vars(Decoder)

\* --------------------------------------------------------- send_sysex
\* what send_sysex leaves alone
sendFrame == <<command_deque, feedVars, decoderVars, data_lock, tableVars,
               metaVars, cpc, held, instances>>

SysexCommands == {111, 121}
SysexArgs == {NoData, Data(<<>>), Data(<<5>>), Data(<<1, 127>>)}

\* Thread t calls send_sysex(sysex_command, arg): the message string is built
\* (lines 285-294) before the first write.
SendSysex(t, sysex_command, arg) ==
    /\ ~sending[t].active
    /\ calls < MaxCalls
    /\ calls' = calls + 1
    /\ sending' = [sending EXCEPT ![t] =
                      [active |-> TRUE, command |-> sysex_command,
                       arg |-> arg,
                       message |-> SysexMessage(sysex_command, arg)]]
    /\ written' = [written EXCEPT ![t] = <<>>]
    /\ UNCHANGED <<transport, sendFrame>>

\* a write that waits while another thread is inside send_sysex
SendByteSerialised(t) ==
    /\ sending[t].active
    /\ \A u \in Senders \ {t} : ~sending[u].active
    /\ transport' = Append(transport, Ord(Head(sending[t].message)))
    /\ written' = [written EXCEPT
                      ![t] = Append(@, Ord(Head(sending[t].message)))]
    /\ sending' = [sending EXCEPT
                      ![t].message = Tail(@),
                      ![t].active = Tail(sending[t].message) # <<>>]
    /\ UNCHANGED <<calls, sendFrame>>

\* One pass of `for data in sysex_message: self.transport.write(data)`
\* (lines 296-297) in thread t; send_sysex returns after the last character.
SendByte(t) ==
    /\ sending[t].active
    /\ transport' = Append(transport, Ord(Head(sending[t].message)))
    /\ written' = [written EXCEPT
                      ![t] = Append(@, Ord(Head(sending[t].message)))]
    /\ sending' = [sending EXCEPT
                      ![t].message = Tail(@),
                      ![t].active = Tail(sending[t].message) # <<>>]
    /\ UNCHANGED <<calls, sendFrame>>

NextSend ==
    \/ \E t \in Senders, c \in SysexCommands, a \in SysexArgs :
           SendSysex(t, c, a)
    \/ \E t \in Senders : SendByte(t)

SpecSend == Init /\ [][NextSend]_vars

\* ------------------------------------------------------------- claims
\* The decoder has just read START_SYSEX and a code with no dispatch entry.
ReadUnknownSysex ==
    /\ Len(Frame) = 2
    /\ Frame[1] = START_SYSEX
    /\ ~Known(Frame[2])

\* C1: after START_SYSEX and a sysex code that has no dispatch entry the
\* decoder task is still running (it has not terminated).
C1_UnknownSysexKeepsRunning == ReadUnknownSysex => pc # "dead"

\* The decoder has just read a command byte 0x80..0xFF, not START_SYSEX, that
\* has no dispatch entry after DIGITAL/ANALOG normalisation.
ReadUnknownCommand ==
    /\ Len(Frame) = 1
    /\ Frame[1] >= 128 /\ Frame[1] <= 255
    /\ Frame[1] # START_SYSEX
    /\ ~Known(Normalise(Frame[1]))

\* C2: after a non-sysex command byte with no dispatch entry the decoder task
\* is still running, back at the top of its loop.
C2_UnknownCommandKeepsRunning == ReadUnknownCommand => pc = "run"

\* C3: what a table accessor returned while a DIGITAL_MESSAGE for a port
\* inside the table was being handled shows that port either as it was
\* before the message or as the message sets it, never a mix.
C3_PortReadIsAtomic ==
    (/\ held.ref = "digital_response_table"
     /\ held.dm.active
     /\ held.dm.first + 8 <= Len(held.seen))
    => \/ PortValues(held.seen, held.dm.first) = held.dm.pre
       \/ PortValues(held.seen, held.dm.first) = PortBits(held.dm.bits)

\* C4: the value a table accessor returned keeps the contents and length it
\* had when the accessor returned.
C4_SnapshotIsolation == held.ref # "none" => HeldValue = held.seen

AllReset(table, n) ==
    /\ Len(table) = n
    /\ \A i \in 1..Len(table) : table[i].mode = 0 /\ table[i].value = 0

\* C6: system_reset writes exactly the byte SYSTEM_RESET to the transport
\* before it touches the tables, and at its return both tables hold
\* {INPUT, 0} for each of the configured pins.
C6_SystemReset ==
    [][/\ (cpc = "idle" /\ cpc' = "reset_acquire")
          => /\ transport' = Append(transport, 255)
             /\ UNCHANGED tableVars
       /\ (cpc # "idle" /\ cpc' = "idle")
          => /\ AllReset(digital_response_table', NumDigitalPins)
             /\ AllReset(analog_response_table', NumAnalogPins)
             /\ transport' = transport
             /\ Last(transport) = 255]_vars

\* C6 witness: an ANALOG_MESSAGE stored 16383 for pin 1 and a reset that
\* returned afterwards left the entry at 0.
C6_Witness ==
    /\ cpc = "idle"
    /\ transport = <<255>>
    /\ pc = "run"
    /\ invoked = << <<"analog_message", <<1, 127, 127>> >> >>
    /\ Len(analog_response_table) = NumAnalogPins
    /\ analog_response_table[2].value = 0

\* The decoder step that completes the handler it was running.
HandlerReturns(at) == pc = at /\ pc' = "run"

\* C7: when the decoder has processed command byte 0x90|p and the LSB/MSB
\* pair of b, digital[p*8+i].value is bit i of b for every i in 0..7.
C7_DigitalBits ==
    [][(HandlerReturns("digital_message") /\ Frame[1] \in 144..159)
       => LET p == Frame[1] % 16
              b == Frame[3] * 128 + Frame[2]
          IN \A i \in 0..7 :
                 digital_response_table'[p * 8 + i + 1].value = Bit(b, i)]_vars

\* The same statement for the handler runs during which system_reset did not
\* take data_lock (the caller was not inside system_reset at any pin).
C7_DigitalBitsNoReset ==
    [][(HandlerReturns("digital_message") /\ Frame[1] \in 144..159
        /\ transport = <<>>)
       => LET p == Frame[1] % 16
              b == Frame[3] * 128 + Frame[2]
          IN \A i \in 0..7 :
                 digital_response_table'[p * 8 + i + 1].value = Bit(b, i)]_vars

\* C8: the END_SYSEX of a frame with a known sysex command invokes the
\* command's registered handler once, with the bytes between the command and
\* END_SYSEX; no handler is invoked by the other bytes of the frame.
C8_SysexDispatch ==
    [][/\ (pc = "sysex_data" /\ pc' # "sysex_data")
          => /\ Last(consumed') = END_SYSEX
             /\ invoked' = Append(invoked,
                    << command_dispatch[Frame[2]][1],
                       SubSeq(Frame, 3, Len(Frame)) >>)
       /\ (pc \in {"sysex_command", "sysex_data"}
           /\ pc' \in {"sysex_command", "sysex_data"})
          => invoked' = invoked
       /\ (pc = "run" /\ pc' = "sysex_command") => invoked' = invoked]_vars

\* C8 witness: STRING_DATA (arity 2 in its dispatch entry) was dispatched with
\* the three bytes of its frame.
C8_Witness ==
    /\ invoked = << <<"_string_data", <<65, 0, 66>> >> >>
    /\ consumed = <<240, 113, 65, 0, 66, 247>>

\* C9: ENCODER_DATA [pin, LSB, MSB] for a pin inside the table stores
\* v - 16384 if v = (MSB<<7)+LSB is above 8192 and v otherwise, and changes
\* nothing else in the tables.
C9_EncoderSign ==
    [][HandlerReturns("encoder_data")
       => LET p == Frame[3]
              v == Frame[5] * 128 + Frame[4]
          IN /\ Frame[2] = ENCODER_DATA
             /\ v \in 0..16383
             /\ digital_response_table'[p + 1].value =
                    IF v > 8192 THEN v - 16384 ELSE v
             /\ digital_response_table'[p + 1].mode =
                    digital_response_table[p + 1].mode
             /\ Len(digital_response_table') = Len(digital_response_table)
             /\ \A i \in 1..Len(digital_response_table) :
                    i # p + 1 =>
                        digital_response_table'[i] = digital_response_table[i]
             /\ analog_response_table' = analog_response_table]_vars

\* C9 witness: raw 8192 was stored, then raw 8193, which reads -8191.
C9_Witness ==
    /\ invoked = << <<"encoder_data", <<2, 0, 64>> >>,
                    <<"encoder_data", <<2, 1, 64>> >> >>
    /\ pc = "run"
    /\ Len(digital_response_table) = NumDigitalPins
    /\ digital_response_table[3].value = -8191

\* C10: command byte 0xE0|k with LSB, MSB of v, k inside the analog table,
\* sets analog[k].value to v and changes neither analog[k].mode, nor another
\* analog entry, nor the digital table.
C10_AnalogValue ==
    [][(HandlerReturns("analog_message") /\ Frame[1] \in 224..233)
       => LET k == Frame[1] % 16
              v == Frame[3] * 128 + Frame[2]
          IN /\ v \in 0..16383
             /\ analog_response_table'[k + 1].value = v
             /\ analog_response_table'[k + 1].mode =
                    analog_response_table[k + 1].mode
             /\ Len(analog_response_table') = Len(analog_response_table)
             /\ \A i \in 1..Len(analog_response_table) :
                    i # k + 1 =>
                        analog_response_table'[i] = analog_response_table[i]
             /\ digital_response_table' = digital_response_table]_vars

\* C10 witness: both modelled values were stored, 257 for pin 0 and 16383
\* for pin 1.
C10_Witness ==
    /\ pc = "run"
    /\ Len(analog_response_table) = NumAnalogPins
    /\ analog_response_table[1].value = 257
    /\ analog_response_table[2].value = 16383

\* The decoder step that calls handler m; its argument is Last(invoked')[2].
Calls(m) ==
    /\ invoked' # invoked
    /\ Last(invoked')[1] = m

\* the characters of the complete byte pairs of s, the low byte of each pair
PairChars(s) == [i \in 1..(Len(s) \div 2) |-> chr(s[2 * i - 1])]

C12_TrailingByteIgnored ==
    [][/\ (Calls("report_firmware") /\ Len(Last(invoked')[2]) >= 2)
          => /\ Last(firmata_firmware') = PairChars(From2(Last(invoked')[2]))
             /\ pc' = "run"
       /\ Calls("_string_data")
          => /\ Last(console') = PairChars(Last(invoked')[2])
             /\ pc' = "run"]_vars

\* C13: the protocol version holds no element or exactly two.
C13_VersionPopulatedOnce == Len(firmata_version) \in {0, 2}

\* C14: a step of the second handler instance (its construction) changes
\* neither the length nor any entry of the tables the first instance reads,
\* nor the first instance's version and firmware metadata.
C14_InstancesIndependent ==
    [][instances' # instances => UNCHANGED <<tableVars, metaVars>>]_vars

\* thread t's send_sysex call returns in this step
SendReturns(t) == sending[t].active /\ ~sending'[t].active

\* the bytes send_sysex(command, data) is to write
SysexFrame(command, data) == <<240, command>> \o data \o <<247>>

\* C15: each write of send_sysex puts one byte on the transport; when the
\* call returns it has written exactly START_SYSEX, command, data...,
\* END_SYSEX (START_SYSEX, command, END_SYSEX for empty or absent data), and
\* these are the transport's whole content when it is the only call made;
\* no table and no metadata changes.
C15_SendSysex ==
    [][\A t \in Senders :
          /\ written'[t] # written[t] /\ sending[t].active
             => /\ Len(transport') = Len(transport) + 1
                /\ written'[t] = Append(written[t], Last(transport'))
                /\ UNCHANGED <<tableVars, metaVars>>
          /\ SendReturns(t)
             => /\ written'[t] =
                       SysexFrame(sending[t].command,
                                  IF sending[t].arg.given
                                  THEN sending[t].arg.bytes ELSE <<>>)
                /\ ~sending[t].arg.given
                       => written'[t] = <<240, sending[t].command, 247>>
                /\ calls = 1 => transport' = written'[t]]_vars

\* C15 witness: a call send_sysex(0x79, [1, 127]) has returned.
C15_Witness ==
    \E t \in Senders :
        /\ ~sending[t].active
        /\ written[t] = <<240, 121, 1, 127, 247>>
        /\ transport = written[t]

\* a START_SYSEX ... END_SYSEX frame with neither byte inside
WellFormed(f) ==
    /\ Len(f) >= 3
    /\ f[1] = 240
    /\ f[Len(f)] = 247
    /\ \A i \in 2..(Len(f) - 1) : f[i] # 240 /\ f[i] # 247

\* s is one well-formed frame followed by another
TwoFrames(s) ==
    \E k \in 1..(Len(s) - 1) :
        /\ WellFormed(SubSeq(s, 1, k))
        /\ WellFormed(SubSeq(s, k + 1, Len(s)))

\* C17: a thread inside send_sysex can always do its next write, whatever
\* another thread inside send_sysex has written so far: nothing serialises
\* the writes of two concurrent calls.
C17_WritesNotSerialised ==
    \A t \in Senders : sending[t].active => ENABLED SendByte(t)

\* C17 witness: two concurrent send_sysex calls have returned and the bytes
\* on the transport are not two well-formed frames one after the other.
C17_Witness ==
    /\ \A t \in Senders : ~sending[t].active /\ WellFormed(written[t])
    /\ Len(transport) = Len(written[1]) + Len(written[2])
    /\ ~TwoFrames(transport)

\* the decoder is inside a message, waiting for its next byte
Waiting == {"sysex_command", "sysex_data", "args"}

\* f is a whole message: a sysex frame closed by END_SYSEX, or a command byte
\* with the num_args bytes of its dispatch entry
Complete(f) ==
    /\ f # <<>>
    /\ IF f[1] = START_SYSEX
       THEN /\ Len(f) >= 3
            /\ Last(f) = END_SYSEX
            /\ \A i \in 2..(Len(f) - 1) : f[i] # END_SYSEX
       ELSE /\ Known(Normalise(f[1]))
            /\ Len(f) = 1 + command_dispatch[Normalise(f[1])][2]

\* C16: the step that calls a handler is the step that pops the last byte of
\* its message; a decoder step that leaves the message incomplete changes no
\* table and no metadata; and while the decoder waits inside a message with
\* no byte in the queue, no step moves it on: there is no timeout.
C16_CompleteBeforeInvoke ==
    [][/\ invoked' # invoked
          => /\ Complete(Frame')
             /\ Last(invoked')[1] =
                    command_dispatch[IF Frame'[1] = START_SYSEX
                                     THEN Frame'[2]
                                     ELSE Normalise(Frame'[1])][1]
       /\ (consumed' # consumed /\ pc' \in Waiting)
          => /\ ~Complete(Frame')
             /\ UNCHANGED <<invoked, tableVars, metaVars>>
       /\ (pc \in Waiting /\ command_deque = <<>>)
          => UNCHANGED <<pc, consumed, invoked, command_data, metaVars>>
      ]_vars

\* C16 witness: one message has been dispatched and the decoder waits inside
\* the next one, which has a data byte already, with the queue empty.
C16_Witness ==
    /\ invoked # <<>>
    /\ pc \in {"sysex_data", "args"}
    /\ command_deque = <<>>
    /\ Len(Frame) >= 2
    /\ pending # <<>>

\* C18: once the decoder has finished the DIGITAL_MESSAGE for port p and no
\* system_reset is in progress, the 8 entries of port p are all 0 (a reset
\* came last) or all the bits of the message (the message came last).
C18_ResetSerialisable ==
    (/\ pc = "run"
     /\ cpc = "idle"
     /\ Len(Frame) = 3
     /\ Frame[1] \in 144..159
     /\ invoked # <<>>
     /\ Last(invoked)[1] = "digital_message"
     /\ (Frame[1] % 16) * 8 + 8 <= Len(digital_response_table))
    => PortValues(digital_response_table, (Frame[1] % 16) * 8)
           \in { [i \in 1..8 |-> 0],
                 PortBits(Frame[3] * 128 + Frame[2]) }

\* C19: outside the critical section of a handler the decoder does not hold
\* data_lock, also after the decoder thread has stopped.
C19_LockReleased ==
    pc \in {"run", "dead"} \cup Waiting => data_lock # "decoder"

\* C20: under weak fairness of the decoder, once the n-th message is in the
\* queue with all its bytes, the decoder eventually makes its n-th handler
\* call.
C20_EventuallyDispatched ==
    \A n \in 1..MaxMsgs : (fed >= n) ~> (Len(invoked) >= n)

====
